---- MODULE Spec2Model ----
(***************************************************************************)
(* Model of pkg/oauth TokenManager (manager.go) of gotoken: the refresh    *)
(* loop (run), the RWMutex protecting currentToken / tokenReady, the       *)
(* tokenReady channels, and the public operations called by concurrent     *)
(* callers.  Durations are in seconds.  Time passes only while the loop    *)
(* sleeps (retry sleep, refresh timer).                                    *)
(***************************************************************************)
EXTENDS Integers, Sequences, FiniteSets, TLC

\* ---------------------------------------------------------------- bounds
MaxGen == 2          \* successful acquisitions the loop performs
MaxFails == 2        \* consecutive failed acquisitions per generation

\* ------------------------------------------------------ program constants
RetryDelay == 5              \* time.Sleep(5 * time.Second)
MinRefresh == 5              \* refreshTime = 5 * time.Second
DefaultBufferTime == 60      \* 60 * time.Second
DefaultRefreshTime == 3540   \* 59 * time.Minute

\* ----------------------------------------------------------------- inputs
\* two caller goroutines sharing one TokenManager
Callers == {"c1", "c2"}
\* WithRefreshTime / WithBufferTime: the defaults (fixed interval); refresh
\* time unset (0) with the default buffer; the same with a negative buffer
\* (accepted unchecked by the options)
Timings == {[refreshTime |-> DefaultRefreshTime, bufferTime |-> DefaultBufferTime],
            [refreshTime |-> 0, bufferTime |-> DefaultBufferTime],
            [refreshTime |-> 0, bufferTime |-> -DefaultBufferTime]}
\* WithOnNewToken: no callback (nil), or a callback
Callbacks == {"nil", "set"}
\* expires_in values the provider's server may be configured to report
ExpirySet == {60, 3600}

\* the Authorization header of the requests a caller hands to ApplyToRequest:
\* c1's requests are new (header not set), c2's carry an earlier value
RequestHeader(c) == IF c = "c1" THEN "" ELSE "Basic xyz"

\* a wider range of option and expires_in values, for the schedule computation
SchedRefreshTimes == {-1, 0, 1, MinRefresh, DefaultRefreshTime}
SchedBufferTimes == {-DefaultBufferTime, 0, DefaultBufferTime, 3600}
SchedExpirySet == {0, 59, 60, 61, 3600, 7200}

\* TokenResponse values.  gen identifies the response object (the pointer):
\* the g-th successful GetNewToken returns a fresh object.
AccessTokenOf(g) == IF g = 1 THEN "abc" ELSE IF g = 2 THEN "def" ELSE IF g = 3 THEN "ghi" ELSE "jkl"
TokenTypeOf(g) == IF g % 2 = 1 THEN "Bearer" ELSE "MAC"

\* a nil *TokenResponse
NilToken == [gen |-> 0, AccessToken |-> "", TokenType |-> "", ExpiresIn |-> 0]

TokenResponse(g, e) ==
    [gen |-> g, AccessToken |-> AccessTokenOf(g), TokenType |-> TokenTypeOf(g), ExpiresIn |-> e]

Ops == {"WaitForToken", "EnsureValidToken", "GetToken", "GetFullToken",
        "GetAuthorizationHeader", "ApplyToRequest"}
WaitOps == {"WaitForToken", "EnsureValidToken"}
ReadOps == Ops \ WaitOps

VARIABLES
    \* TokenManager fields
    currentToken,   \* *TokenResponse (NilToken when nil)
    tokenReady,     \* the channel currently in tm.tokenReady (channel id)
    closed,         \* set of channel ids that have been closed
    mutexW,         \* RWMutex: held by the writer (the loop)
    mutexR,         \* RWMutex: set of callers holding a read lock
    refreshTime, bufferTime, onNewToken,
    expiresIn,      \* provider: the expires_in its token endpoint reports
    \* run() goroutine
    pc,             \* position of the loop
    token,          \* local: result of GetNewToken
    delay,          \* local: refreshTime computed for the timer
    fails,          \* consecutive failed GetNewToken calls (history)
    successes,      \* successful GetNewToken calls so far (history)
    age,            \* seconds since the stored credential was acquired
    notified,       \* tokens tm.onNewToken was called with, in order (history)
    \* caller goroutines
    cpc, cop,       \* position and operation of each caller
    cgate,          \* channel the caller received / receives from (0: none yet)
    ctok,           \* local: pointer returned by GetFullToken / read in GetToken
    cres,           \* string result of the operation
    creq,           \* Authorization header of the caller's request
    cerr            \* error result of EnsureValidToken ("none": not returned)

vars == <<currentToken, tokenReady, closed, mutexW, mutexR, refreshTime,
          bufferTime, onNewToken, expiresIn, pc, token, delay, fails, successes, age,
          notified,
          cpc, cop, cgate, ctok, cres, creq, cerr>>

mgrVars == <<currentToken, tokenReady, closed, mutexW, mutexR>>
cfgVars == <<refreshTime, bufferTime, onNewToken, expiresIn>>
loopVars == <<pc, token, delay, fails, successes, age, notified>>
callerVars == <<cpc, cop, cgate, ctok, cres, creq, cerr>>

\* NewTokenManager: defaults, then options, then `go tm.run()`
Init ==
    /\ currentToken = NilToken
    /\ tokenReady = 1
    /\ closed = {}
    /\ mutexW = FALSE
    /\ mutexR = {}
    /\ \E t \in Timings : refreshTime = t.refreshTime /\ bufferTime = t.bufferTime
    /\ onNewToken \in Callbacks
    /\ expiresIn \in ExpirySet
    /\ pc = "acquire"
    /\ token = NilToken
    /\ delay = 0
    /\ fails = 0
    /\ successes = 0
    /\ age = 0
    /\ notified = <<>>
    /\ cpc = [c \in Callers |-> "idle"]
    /\ cop = [c \in Callers |-> "none"]
    /\ cgate = [c \in Callers |-> 0]
    /\ ctok = [c \in Callers |-> NilToken]
    /\ cres = [c \in Callers |-> ""]
    /\ creq = [c \in Callers |-> ""]
    /\ cerr = [c \in Callers |-> "none"]

\* ------------------------------------------------------------------ run()

\* GetNewToken returns (token, nil)
AcquireOk ==
    /\ pc = "acquire"
    /\ successes < MaxGen
    /\ token' = TokenResponse(successes + 1, expiresIn)
    /\ successes' = successes + 1
    /\ fails' = 0
    /\ pc' = "pub_lock"
    /\ UNCHANGED <<mgrVars, cfgVars, delay, age, callerVars, notified>>

\* variant: readiness is signalled whatever GetNewToken returned
AcquireFailSignals ==
    /\ pc = "acquire"
    /\ successes < MaxGen
    /\ fails < MaxFails
    /\ token' = NilToken
    /\ fails' = fails + 1
    /\ closed' = closed \cup {tokenReady}
    /\ pc' = "backoff"
    /\ UNCHANGED <<currentToken, tokenReady, mutexW, mutexR, cfgVars, delay,
                   successes, age, callerVars, notified>>

\* variant: the result is stored before err is checked, so a failure stores nil
AcquireFailClears ==
    /\ pc = "acquire"
    /\ successes < MaxGen
    /\ fails < MaxFails
    /\ ~mutexW /\ mutexR = {}
    /\ token' = NilToken
    /\ currentToken' = NilToken
    /\ fails' = fails + 1
    /\ pc' = "backoff"
    /\ UNCHANGED <<tokenReady, closed, mutexW, mutexR, cfgVars, delay,
                   successes, age, callerVars, notified>>

\* variant: a failed acquisition ends the loop
AcquireFailFatal ==
    /\ pc = "acquire"
    /\ successes < MaxGen
    /\ fails < MaxFails
    /\ token' = NilToken
    /\ fails' = fails + 1
    /\ pc' = "stopped"
    /\ UNCHANGED <<mgrVars, cfgVars, delay, successes, age, callerVars, notified>>

\* variant: the callback is also called (with nil) when GetNewToken fails
AcquireFailNotifies ==
    /\ pc = "acquire"
    /\ successes < MaxGen
    /\ fails < MaxFails
    /\ token' = NilToken
    /\ fails' = fails + 1
    /\ notified' = IF onNewToken = "nil" THEN notified ELSE Append(notified, 0)
    /\ pc' = "backoff"
    /\ UNCHANGED <<mgrVars, cfgVars, delay, successes, age, callerVars>>

\* GetNewToken returns (nil, err): log, then time.Sleep
AcquireFail ==
    /\ pc = "acquire"
    /\ successes < MaxGen
    /\ fails < MaxFails
    /\ token' = NilToken
    /\ fails' = fails + 1
    /\ pc' = "backoff"
    /\ UNCHANGED <<mgrVars, cfgVars, delay, successes, age, callerVars, notified>>

\* time.Sleep(5 * time.Second) returns; continue
RetrySleep ==
    /\ pc = "backoff"
    /\ age' = IF currentToken = NilToken THEN age ELSE age + RetryDelay
    /\ pc' = "acquire"
    /\ UNCHANGED <<mgrVars, cfgVars, token, delay, fails, successes, callerVars, notified>>

\* tm.mutex.Lock() (blocks while a reader or writer holds the mutex)
LockForPublish ==
    /\ pc = "pub_lock"
    /\ ~mutexW /\ mutexR = {}
    /\ mutexW' = TRUE
    /\ pc' = "pub_write"
    /\ UNCHANGED <<currentToken, tokenReady, closed, mutexR, cfgVars,
                   token, delay, fails, successes, age, callerVars, notified>>

\* variant: only the first token is ever stored
PublishedOnce == IF currentToken = NilToken THEN token ELSE currentToken

\* the value stored by the loop
PublishedValue == token

\* variant: the token is assigned to a shadowing local, not to the field
PublishShadowed ==
    /\ pc = "pub_write"
    /\ age' = 0
    /\ mutexW' = FALSE
    /\ pc' = "signal"
    /\ UNCHANGED <<currentToken, tokenReady, closed, mutexR, cfgVars, token,
                   delay, fails, successes, callerVars, notified>>

\* tm.currentToken = token; tm.mutex.Unlock()
Publish ==
    /\ pc = "pub_write"
    /\ currentToken' = PublishedValue
    /\ age' = 0
    /\ mutexW' = FALSE
    /\ pc' = "signal"
    /\ UNCHANGED <<tokenReady, closed, mutexR, cfgVars, token, delay, fails,
                   successes, callerVars, notified>>

\* variant: close(ch) without the select; closing a closed channel panics
SignalGateUnguarded(cl, ch) ==
    [closed |-> cl \cup {ch}, panic |-> ch \in cl]

\* select { case <-ch: default: close(ch) } on channel ch, cl the set of
\* closed channels: a receive from a closed channel is ready, so the default
\* branch, and with it close(ch), runs only when ch is still open
SignalGate(cl, ch) ==
    IF ch \in cl THEN [closed |-> cl, panic |-> FALSE]
    ELSE [closed |-> cl \cup {ch}, panic |-> FALSE]

\* variant: the channel is never closed
SignalReadyNoClose ==
    /\ pc = "signal"
    /\ pc' = "callback"
    /\ UNCHANGED <<mgrVars, cfgVars, token, delay, fails, successes, age, callerVars, notified>>

\* select { case <-tm.tokenReady: default: close(tm.tokenReady) }
SignalReady ==
    /\ pc = "signal"
    /\ closed' = SignalGate(closed, tokenReady).closed
    /\ pc' = IF SignalGate(closed, tokenReady).panic THEN "crashed" ELSE "callback"
    /\ UNCHANGED <<currentToken, tokenReady, mutexW, mutexR, cfgVars, token,
                   delay, fails, successes, age, callerVars, notified>>

\* if tm.onNewToken != nil { tm.onNewToken(token) }: the callback returns, or
\* it panics; the panic is not recovered and ends the program
Callback ==
    /\ pc = "callback"
    /\ IF onNewToken = "nil"
       THEN pc' = "schedule" /\ notified' = notified
       ELSE /\ notified' = Append(notified, token.gen)
            /\ pc' \in {"schedule", "crashed"}
    /\ UNCHANGED <<mgrVars, cfgVars, token, delay, fails, successes, age, callerVars>>

\* the refresh delay computed from the configuration and the token
\* variant: the expiry-based delay is used whenever it is positive
RefreshDelayExpiryFirst(rt, bt, exp) ==
    IF exp - bt > 0 THEN exp - bt
    ELSE IF rt > 0 THEN rt ELSE MinRefresh

RefreshDelay(rt, bt, exp) ==
    IF rt > 0 THEN rt
    ELSE IF exp - bt < 0 THEN MinRefresh ELSE exp - bt

\* variant: the next channel is created before the timer is started
ScheduleInstallsGate ==
    /\ pc = "schedule"
    /\ delay' = RefreshDelay(refreshTime, bufferTime, token.ExpiresIn)
    /\ tokenReady' = tokenReady + 1
    /\ pc' = "timer"
    /\ UNCHANGED <<currentToken, closed, mutexW, mutexR, cfgVars, token, fails,
                   successes, age, callerVars, notified>>

\* compute refreshTime; tm.refreshTimer = time.NewTimer(refreshTime)
Schedule ==
    /\ pc = "schedule"
    /\ delay' = RefreshDelay(refreshTime, bufferTime, token.ExpiresIn)
    /\ pc' = "timer"
    /\ UNCHANGED <<mgrVars, cfgVars, token, fails, successes, age, callerVars, notified>>

\* <-tm.refreshTimer.C
TimerFire ==
    /\ pc = "timer"
    /\ successes < MaxGen
    /\ age' = age + delay
    /\ pc' = "gate_lock"
    /\ UNCHANGED <<mgrVars, cfgVars, token, delay, fails, successes, callerVars, notified>>

\* tm.mutex.Lock()
LockForGate ==
    /\ pc = "gate_lock"
    /\ ~mutexW /\ mutexR = {}
    /\ mutexW' = TRUE
    /\ pc' = "gate_write"
    /\ UNCHANGED <<currentToken, tokenReady, closed, mutexR, cfgVars,
                   token, delay, fails, successes, age, callerVars, notified>>

\* variant: the channel is not recreated for the next token
InstallGateSkipped ==
    /\ pc = "gate_write"
    /\ mutexW' = FALSE
    /\ pc' = "acquire"
    /\ UNCHANGED <<currentToken, tokenReady, closed, mutexR, cfgVars, token,
                   delay, fails, successes, age, callerVars, notified>>

\* tm.tokenReady = make(chan struct{}); tm.mutex.Unlock()
InstallGate ==
    /\ pc = "gate_write"
    /\ tokenReady' = tokenReady + 1
    /\ mutexW' = FALSE
    /\ pc' = "acquire"
    /\ UNCHANGED <<currentToken, closed, mutexR, cfgVars, token, delay,
                   fails, successes, age, callerVars, notified>>

Loop ==
    \/ AcquireOk \/ AcquireFail \/ RetrySleep \/ LockForPublish \/ Publish
    \/ SignalReady \/ Callback \/ Schedule \/ TimerFire \/ LockForGate
    \/ InstallGate

\* -------------------------------------------------------------- callers

\* an unrecovered panic in run() ends the whole program
Running == pc # "crashed"

\* sync.RWMutex: a blocked Lock call excludes new readers
WriterWaiting == pc \in {"pub_lock", "gate_lock"}

\* a caller goroutine calls WaitForToken or EnsureValidToken
StartWait(c) ==
    /\ Running
    /\ cpc[c] = "idle"
    /\ \E op \in WaitOps : cop' = [cop EXCEPT ![c] = op]
    /\ cpc' = [cpc EXCEPT ![c] = "chan_read"]
    /\ ctok' = [ctok EXCEPT ![c] = NilToken]
    /\ cres' = [cres EXCEPT ![c] = ""]
    /\ creq' = [creq EXCEPT ![c] = ""]
    /\ cerr' = [cerr EXCEPT ![c] = "none"]
    /\ UNCHANGED <<mgrVars, cfgVars, loopVars, cgate>>

\* WaitForToken: evaluate tm.tokenReady (no lock held).  The read races with
\* the loop's write of tm.tokenReady; it yields the old or the new channel,
\* which is this step taken before or after InstallGate.
ReadTokenReady(c) ==
    /\ Running
    /\ cpc[c] = "chan_read"
    /\ cgate' = [cgate EXCEPT ![c] = tokenReady]
    /\ cpc' = [cpc EXCEPT ![c] = "recv"]
    /\ UNCHANGED <<mgrVars, cfgVars, loopVars, cop, ctok, cres, creq, cerr>>

\* variant: EnsureValidToken gives up with an error while GetNewToken fails
ReceiveOrError(c) ==
    /\ Running
    /\ cpc[c] = "recv"
    /\ \/ /\ cgate[c] \in closed
          /\ cerr' = [cerr EXCEPT ![c] =
                        IF cop[c] = "EnsureValidToken" THEN "nil" ELSE "none"]
       \/ /\ cop[c] = "EnsureValidToken" /\ fails > 0
          /\ cerr' = [cerr EXCEPT ![c] = "error"]
    /\ cpc' = [cpc EXCEPT ![c] = "idle"]
    /\ UNCHANGED <<mgrVars, cfgVars, loopVars, cop, cgate, ctok, cres, creq>>

\* WaitForToken: the receive <-ch completes once ch is closed;
\* EnsureValidToken then returns nil
Receive(c) ==
    /\ Running
    /\ cpc[c] = "recv"
    /\ cgate[c] \in closed
    /\ cerr' = [cerr EXCEPT ![c] =
                  IF cop[c] = "EnsureValidToken" THEN "nil" ELSE "none"]
    /\ cpc' = [cpc EXCEPT ![c] = "idle"]
    /\ UNCHANGED <<mgrVars, cfgVars, loopVars, cop, cgate, ctok, cres, creq>>

\* a caller goroutine calls GetToken, GetFullToken, GetAuthorizationHeader or
\* ApplyToRequest (on a request) and tm.mutex.RLock() returns
RLock(c) ==
    /\ Running
    /\ cpc[c] = "idle"
    /\ ~mutexW /\ ~WriterWaiting
    /\ \E op \in ReadOps :
          /\ cop' = [cop EXCEPT ![c] = op]
          /\ creq' = [creq EXCEPT ![c] =
                        IF op = "ApplyToRequest" THEN RequestHeader(c) ELSE ""]
    /\ mutexR' = mutexR \cup {c}
    /\ cpc' = [cpc EXCEPT ![c] = "locked"]
    /\ ctok' = [ctok EXCEPT ![c] = NilToken]
    /\ cres' = [cres EXCEPT ![c] = ""]
    /\ cerr' = [cerr EXCEPT ![c] = "none"]
    /\ UNCHANGED <<currentToken, tokenReady, closed, mutexW, cfgVars, loopVars,
                   cgate>>

\* GetToken: read tm.currentToken, return "" or its AccessToken; RUnlock
GetToken(c) ==
    /\ Running
    /\ cpc[c] = "locked" /\ cop[c] = "GetToken"
    /\ ctok' = [ctok EXCEPT ![c] = currentToken]
    /\ cres' = [cres EXCEPT ![c] =
                  IF currentToken = NilToken THEN "" ELSE currentToken.AccessToken]
    /\ mutexR' = mutexR \ {c}
    /\ cpc' = [cpc EXCEPT ![c] = "idle"]
    /\ UNCHANGED <<currentToken, tokenReady, closed, mutexW, cfgVars, loopVars,
                   cop, cgate, creq, cerr>>

\* GetFullToken: return tm.currentToken; RUnlock
GetFullToken(c) ==
    /\ Running
    /\ cpc[c] = "locked" /\ cop[c] # "GetToken"
    /\ ctok' = [ctok EXCEPT ![c] = currentToken]
    /\ mutexR' = mutexR \ {c}
    /\ cpc' = [cpc EXCEPT ![c] = IF cop[c] = "GetFullToken" THEN "idle" ELSE "type"]
    /\ UNCHANGED <<currentToken, tokenReady, closed, mutexW, cfgVars, loopVars,
                   cop, cgate, cres, creq, cerr>>

\* variant: each field is read through tm.currentToken again
HeaderTokenReread(c) == currentToken

\* the TokenResponse whose fields GetAuthorizationHeader reads
HeaderToken(c) == ctok[c]

\* GetAuthorizationHeader: `if token == nil { return "" }`, else evaluate
\* token.TokenType + " "
HeaderType(c) ==
    /\ Running
    /\ cpc[c] = "type"
    /\ IF ctok[c] = NilToken
       THEN /\ cres' = [cres EXCEPT ![c] = ""]
            /\ cpc' = [cpc EXCEPT ![c] =
                         IF cop[c] = "ApplyToRequest" THEN "set" ELSE "idle"]
       ELSE /\ cres' = [cres EXCEPT ![c] = HeaderToken(c).TokenType \o " "]
            /\ cpc' = [cpc EXCEPT ![c] = "access"]
    /\ UNCHANGED <<mgrVars, cfgVars, loopVars, cop, cgate, ctok, creq, cerr>>

\* GetAuthorizationHeader: ... + token.AccessToken; return
HeaderAccess(c) ==
    /\ Running
    /\ cpc[c] = "access"
    /\ cres' = [cres EXCEPT ![c] = cres[c] \o HeaderToken(c).AccessToken]
    /\ cpc' = [cpc EXCEPT ![c] = IF cop[c] = "ApplyToRequest" THEN "set" ELSE "idle"]
    /\ UNCHANGED <<mgrVars, cfgVars, loopVars, cop, cgate, ctok, creq, cerr>>

\* variant: req.Header.Set is called with whatever GetAuthorizationHeader returned
SetHeaderAlways(c) ==
    /\ Running
    /\ cpc[c] = "set"
    /\ creq' = [creq EXCEPT ![c] = cres[c]]
    /\ cpc' = [cpc EXCEPT ![c] = "idle"]
    /\ UNCHANGED <<mgrVars, cfgVars, loopVars, cop, cgate, ctok, cres, cerr>>

\* ApplyToRequest: if authHeader != "" { req.Header.Set("Authorization", authHeader) }
SetHeader(c) ==
    /\ Running
    /\ cpc[c] = "set"
    /\ creq' = [creq EXCEPT ![c] = IF cres[c] # "" THEN cres[c] ELSE creq[c]]
    /\ cpc' = [cpc EXCEPT ![c] = "idle"]
    /\ UNCHANGED <<mgrVars, cfgVars, loopVars, cop, cgate, ctok, cres, cerr>>

Caller(c) ==
    \/ StartWait(c) \/ ReadTokenReady(c) \/ Receive(c) \/ RLock(c) \/ GetToken(c)
    \/ GetFullToken(c) \/ HeaderType(c) \/ HeaderAccess(c) \/ SetHeader(c)

Next == Loop \/ \E c \in Callers : Caller(c)

Spec == Init /\ [][Next]_vars

\* the steps of run() other than the outcome of GetNewToken
LoopStep ==
    \/ RetrySleep \/ LockForPublish \/ Publish \/ SignalReady \/ Callback
    \/ Schedule \/ TimerFire \/ LockForGate \/ InstallGate

\* the steps that continue an operation a caller has started
CallerStep(c) ==
    \/ ReadTokenReady(c) \/ Receive(c) \/ GetToken(c) \/ GetFullToken(c)
    \/ HeaderType(c) \/ HeaderAccess(c) \/ SetHeader(c)

\* Scheduling: every goroutine that can run eventually does (the Go
\* scheduler), and the provider does not fail forever.
Fairness ==
    /\ WF_vars(LoopStep)
    /\ SF_vars(AcquireOk)
    /\ \A c \in Callers : WF_vars(CallerStep(c))

\* The timing options and expires_in only set how long the loop sleeps, and a
\* nil callback behaves as one that returns; the liveness properties are
\* checked for the default timings with a callback set.
LiveInit ==
    /\ Init
    /\ refreshTime = DefaultRefreshTime
    /\ bufferTime = DefaultBufferTime
    /\ expiresIn = DefaultRefreshTime + DefaultBufferTime
    /\ onNewToken = "set"

LiveSpec == LiveInit /\ [][Next]_vars /\ Fairness

\* ------------------------------------------------------------ properties

\* caller c has returned from WaitForToken / EnsureValidToken
Returned(c) == cop[c] \in WaitOps /\ cpc[c] = "idle"

\* caller c is in a read operation and has read tm.currentToken
HasRead(c) == cop[c] \in ReadOps /\ cpc[c] # "locked"

\* caller c takes the step that reads tm.currentToken under the read lock
ReadsStore(c) == cpc[c] = "locked" /\ cpc'[c] # "locked"

\* number of tokens stored in tm.currentToken so far
PublishedGen == IF pc \in {"pub_lock", "pub_write"} THEN successes - 1 ELSE successes

HeaderOf(t) == IF t = NilToken THEN "" ELSE t.TokenType \o " " \o t.AccessToken

\* C1: a caller that has returned from WaitForToken or EnsureValidToken
\* implies that at least one GetNewToken call has succeeded; failed calls
\* alone never let a waiter return.
C1_NoFalseReadiness ==
    \A c \in Callers : Returned(c) => successes >= 1

\* C1 witness: a waiter has returned, after the first success
C1_Witness ==
    \E c \in Callers : Returned(c) /\ cgate[c] = 1 /\ successes = 1

\* C2 (as claimed): a read of the store by a caller that was released from
\* WaitForToken by generation N's channel returns a non-nil token, and it is
\* the token of generation N exactly.
C2_ReleaseOrdering_Exact ==
    \A c \in Callers :
        (HasRead(c) /\ cgate[c] # 0) =>
            (ctok[c] # NilToken /\ ctok[c].gen = cgate[c])

\* C2 (amended): a read of the store by a caller that was released from
\* WaitForToken by generation N's channel returns a non-nil token of
\* generation N or of a later generation, never of an older one.
C2_ReleaseOrdering ==
    \A c \in Callers :
        (HasRead(c) /\ cgate[c] # 0) =>
            (ctok[c] # NilToken /\ ctok[c].gen >= cgate[c])

\* C2 witness: released by generation 2's channel, then read generation 2
C2_Witness ==
    \E c \in Callers : HasRead(c) /\ cgate[c] = 2 /\ ctok[c].gen = 2

\* C3: every GetToken returns the access token of the generation most
\* recently stored ("" before the first), and the stored generation only
\* advances, so readers see the tokens in order of acquisition.
C3_Freshness ==
    [][ /\ \A c \in Callers :
              (ReadsStore(c) /\ cop[c] = "GetToken") =>
                  cres'[c] = (IF PublishedGen = 0 THEN ""
                              ELSE AccessTokenOf(PublishedGen))
        /\ currentToken'.gen >= currentToken.gen
        /\ currentToken'.gen <= currentToken.gen + 1 ]_vars

\* C3 witness: GetToken returned the second generation's token
C3_Witness ==
    \E c \in Callers :
        cop[c] = "GetToken" /\ cpc[c] = "idle" /\ cres[c] = AccessTokenOf(2)

\* C4: a failed GetNewToken leaves tm.currentToken unchanged, and a GetToken
\* made while the acquisition for generation N+1 is failing returns generation
\* N's access token, never "".
C4_RenewalFailureKeepsToken ==
    [][ /\ (pc = "acquire" /\ pc' # "pub_lock") => currentToken' = currentToken
        /\ \A c \in Callers :
              (ReadsStore(c) /\ cop[c] = "GetToken" /\ fails > 0 /\ successes > 0) =>
                  (cres'[c] = AccessTokenOf(successes) /\ cres'[c] # "") ]_vars

\* C4 witness: GetToken holds the read lock while generation 2's acquisition
\* has failed MaxFails times, generation 1 stored
C4_Witness ==
    \E c \in Callers :
        /\ cop[c] = "GetToken" /\ cpc[c] = "locked"
        /\ pc = "backoff" /\ fails = MaxFails /\ successes = 1
        /\ currentToken = TokenResponse(1, expiresIn)

\* C5 (as claimed): once a credential has been published, a later call of
\* WaitForToken / EnsureValidToken does not wait: when a caller that was
\* already released once evaluates tm.tokenReady again, the channel it
\* receives from is closed.
C5_NoWaitAfterFirstPublish ==
    [][ \A c \in Callers :
          (cpc[c] = "chan_read" /\ cgate[c] # 0 /\ cpc'[c] = "recv") =>
              cgate'[c] \in closed ]_vars

\* C6 (as claimed): a token returned by a read of the store was acquired less
\* than its ExpiresIn seconds ago (stated for the valid configurations, buffer
\* time not negative).
C6_NeverExpired ==
    [][ \A c \in Callers :
          (ReadsStore(c) /\ ctok'[c] # NilToken /\ bufferTime >= 0) =>
              age < ctok'[c].ExpiresIn ]_vars

\* caller c is blocked in WaitForToken on a channel that is still open
Blocked(c) == cpc[c] = "recv" /\ cgate[c] \notin closed

\* C7: after a failed acquisition the loop sleeps and then acquires again;
\* whenever no token is stored yet or some caller is blocked in WaitForToken,
\* eventually a token is stored and the channel of every blocked caller has
\* been closed.
C7_LoopLiveness ==
    /\ (pc = "backoff") ~> (pc = "acquire")
    /\ (currentToken = NilToken \/ \E c \in Callers : Blocked(c))
          ~> (currentToken # NilToken /\ \A c \in Callers : ~Blocked(c))

\* C7 witness: a caller blocked across MaxFails failed attempts is released
C7_Witness ==
    \E c \in Callers :
        cpc[c] = "recv" /\ cgate[c] = 2 /\ cgate[c] \in closed /\ successes = 2

\* C8 (as claimed): no caller reads a TokenManager field without the read
\* lock while the loop, holding the write lock, is writing that field.
C8_NoUnsynchronizedRead ==
    \A c \in Callers :
        ~(cpc[c] = "chan_read" /\ c \notin mutexR /\ pc = "gate_write" /\ mutexW)

\* C9: the value GetToken / GetAuthorizationHeader / ApplyToRequest returns
\* is built from one TokenResponse only: the one the call read from the store,
\* which is a token the loop acquired.
C9_NoTornRead ==
    \A c \in Callers :
        /\ ctok[c].gen \in 0..successes
        /\ (cop[c] = "GetToken" /\ cpc[c] = "idle") =>
               cres[c] = ctok[c].AccessToken
        /\ (cop[c] \in {"GetAuthorizationHeader", "ApplyToRequest"}
              /\ cpc[c] \in {"idle", "set"}) => cres[c] = HeaderOf(ctok[c])
        /\ (cop[c] = "ApplyToRequest" /\ cpc[c] = "idle" /\ ctok[c] # NilToken) =>
               creq[c] = HeaderOf(ctok[c])

\* C9 witness: ApplyToRequest built its header from generation 1's token
\* although the loop stored generation 2's token during the call
C9_Witness ==
    \E c \in Callers :
        /\ cop[c] = "ApplyToRequest" /\ cpc[c] = "set"
        /\ cres[c] = "Bearer abc" /\ currentToken.gen = 2

\* C10: a caller blocked in WaitForToken stays on the channel it read; that
\* channel is closed only once its generation's token is stored; and whenever
\* the loop calls GetNewToken (first attempt or retry) tm.tokenReady already
\* holds that generation's channel, still open.
C10_WaiterBoundToGate ==
    /\ [][ \A c \in Callers :
             (cpc[c] = "recv" /\ cpc'[c] = "recv") => cgate'[c] = cgate[c] ]_vars
    /\ [](\A g \in closed : currentToken.gen >= g)
    /\ [](pc \in {"acquire", "backoff"} =>
             (tokenReady = successes + 1 /\ tokenReady \notin closed))
    /\ [](\A c \in Callers : Returned(c) => currentToken.gen >= cgate[c])

\* C10 witness: a caller is still blocked on generation 2's channel after
\* failed attempts for generation 2
C10_Witness ==
    \E c \in Callers :
        cpc[c] = "recv" /\ cgate[c] = 2 /\ fails = MaxFails /\ pc = "acquire"

\* the channel in tm.tokenReady is closed
GateReady == tokenReady \in closed

\* tm.currentToken is non-nil and is the token of the generation the channel
\* in tm.tokenReady was created for
CredentialOfGate == currentToken # NilToken /\ currentToken.gen = tokenReady

\* C11 (as claimed): in every reachable state the current channel is closed
\* if and only if the stored token is present and is the token of the
\* channel's generation.
C11_GateIffCredential == GateReady <=> CredentialOfGate

\* C11 (amended): the current channel is closed only if the stored token is
\* present and of the channel's generation; and when the stored token is
\* present and of the channel's generation the channel is closed, except in
\* the loop's step between storing the token and closing the channel.
C11_GateIffCredentialOutsidePublish ==
    /\ GateReady => CredentialOfGate
    /\ (CredentialOfGate /\ pc # "signal") => GateReady

\* C11 witness: generation 2's channel is closed and its token is stored
C11_Witness ==
    GateReady /\ CredentialOfGate /\ tokenReady = 2 /\ pc = "timer"

\* C12 (as claimed): a panic in the onNewToken callback does not stop the
\* loop: from the callback the loop always goes on to compute the schedule.
C12_CallbackIsolated ==
    [][pc = "callback" => pc' \in {"callback", "schedule"}]_vars

\* C13 (as claimed): a negative buffer time is rejected at construction, so
\* the loop never runs, and never computes a schedule, with one.
C13_InvalidConfigRejected ==
    pc \in {"acquire", "schedule"} => bufferTime >= 0

\* C15 (as claimed): with the refresh time unset (<= 0) the delay the loop
\* waits is strictly positive for every expires_in and buffer time.
C15_ExpiryDelayPositive ==
    (pc = "timer" /\ refreshTime <= 0) => delay > 0

\* C20 (as claimed): the next generation's open channel is installed before
\* the scheduled wait and is in tm.tokenReady during the whole wait.
C20_GateInstalledBeforeWait ==
    pc = "timer" => (tokenReady = successes + 1 /\ tokenReady \notin closed)

\* C20 (amended): after a successful acquisition the loop stores the token,
\* closes the channel, invokes the callback, computes the schedule and enters
\* the scheduled wait; only after the wait has elapsed does it create and
\* install the next generation's open channel, and then acquires again.
\* During the whole scheduled wait tm.tokenReady holds the current
\* generation's closed channel.
C20_StepOrder ==
    /\ [][ /\ pc = "pub_lock" => pc' \in {"pub_lock", "pub_write"}
           /\ pc = "pub_write" =>
                  (pc' = "pub_write" \/ (pc' = "signal" /\ currentToken' = token))
           /\ pc = "signal" => pc' \in {"signal", "callback"}
           /\ pc = "callback" => pc' \in {"callback", "schedule", "crashed"}
           /\ pc = "schedule" => pc' \in {"schedule", "timer"}
           /\ pc = "timer" => pc' \in {"timer", "gate_lock"}
           /\ pc = "gate_lock" => pc' \in {"gate_lock", "gate_write"}
           /\ pc = "gate_write" =>
                  \/ pc' = "gate_write"
                  \/ /\ pc' = "acquire"
                     /\ tokenReady' = tokenReady + 1
                     /\ tokenReady' \notin closed'
           /\ tokenReady' # tokenReady => pc = "gate_write" ]_vars
    /\ [](pc \in {"callback", "schedule", "timer", "gate_lock", "gate_write"} =>
             (tokenReady = successes /\ tokenReady \in closed
                /\ currentToken = token))

\* C20 witness: the loop is in the scheduled wait of generation 2
C20_Witness ==
    pc = "timer" /\ successes = 2 /\ tokenReady = 2 /\ 2 \in closed

\* ------------------------------------------------- the schedule computation
\* the loop alone (no caller is active), started with any of the wider range
\* of option values and expires_in values
SchedInit ==
    /\ currentToken = NilToken
    /\ tokenReady = 1
    /\ closed = {}
    /\ mutexW = FALSE
    /\ mutexR = {}
    /\ refreshTime \in SchedRefreshTimes
    /\ bufferTime \in SchedBufferTimes
    /\ onNewToken \in Callbacks
    /\ expiresIn \in SchedExpirySet
    /\ pc = "acquire"
    /\ token = NilToken
    /\ delay = 0
    /\ fails = 0
    /\ successes = 0
    /\ age = 0
    /\ notified = <<>>
    /\ cpc = [c \in Callers |-> "idle"]
    /\ cop = [c \in Callers |-> "none"]
    /\ cgate = [c \in Callers |-> 0]
    /\ ctok = [c \in Callers |-> NilToken]
    /\ cres = [c \in Callers |-> ""]
    /\ creq = [c \in Callers |-> ""]
    /\ cerr = [c \in Callers |-> "none"]

SchedSpec == SchedInit /\ [][Loop]_vars

\* C14: when the configured refresh time is greater than 0, the delay the
\* loop waits after every successful acquisition is exactly that refresh
\* time, for every generation, every expires_in and every buffer time.
C14_FixedInterval ==
    /\ (pc = "timer" /\ refreshTime > 0) => delay = refreshTime
    /\ refreshTime > 0 =>
           \A bt \in SchedBufferTimes, exp \in SchedExpirySet :
               RefreshDelay(refreshTime, bt, exp) = refreshTime

\* C14 witness: the second generation waits the default 59 minutes although
\* its token expires after 60 seconds and the buffer is not the default
C14_Witness ==
    /\ pc = "timer" /\ successes = 2
    /\ refreshTime = DefaultRefreshTime /\ delay = DefaultRefreshTime
    /\ token.ExpiresIn = 60 /\ bufferTime = 0

\* the callers whose receive is enabled when cl is the set of closed channels
Released(cl) == {c \in Callers : cpc[c] = "recv" /\ cgate[c] \in cl}

\* C18: in every reachable state, signalling the installed channel when it is
\* already closed changes nothing; signalling it twice gives the same set of
\* closed channels and the same released waiters as signalling it once; no
\* signal panics, and the loop's signal step always goes on to the callback.
C18_SignalIdempotent ==
    /\ [](LET once == SignalGate(closed, tokenReady)
              twice == SignalGate(once.closed, tokenReady)
          IN /\ ~once.panic /\ ~twice.panic
             /\ twice.closed = once.closed
             /\ Released(twice.closed) = Released(once.closed)
             /\ tokenReady \in closed => once.closed = closed)
    /\ [][pc = "signal" => pc' \in {"signal", "callback"}]_vars

\* C18 witness: the loop has signalled generation 2's channel, a caller
\* waiting on it is released, and a second signal would find it closed
C18_Witness ==
    /\ pc = "callback" /\ tokenReady = 2 /\ tokenReady \in closed
    /\ \E c \in Callers : c \in Released(closed) /\ cgate[c] = tokenReady

\* C16: GetAuthorizationHeader returns "" exactly when the token it read is
\* nil, which is exactly when no token has been stored yet, and otherwise
\* TokenType + " " + AccessToken of that token; ApplyToRequest sets the
\* request's Authorization header to that value when it is not "" and leaves
\* the header as it was otherwise.
C16_HeaderApplication ==
    /\ [](\A c \in Callers :
             (cop[c] \in {"GetAuthorizationHeader", "ApplyToRequest"}
                /\ cpc[c] \in {"idle", "set"}) =>
                 /\ cres[c] = "" <=> ctok[c] = NilToken
                 /\ ctok[c] # NilToken =>
                        cres[c] = ctok[c].TokenType \o " " \o ctok[c].AccessToken)
    /\ [][\A c \in Callers :
             /\ (ReadsStore(c) /\ cop[c] \in {"GetAuthorizationHeader", "ApplyToRequest"}) =>
                    /\ ctok'[c] = currentToken
                    /\ ctok'[c] = NilToken <=> PublishedGen = 0
             /\ (cop[c] = "ApplyToRequest" /\ cpc[c] \in {"locked", "type", "access"}) =>
                    creq'[c] = creq[c]
             /\ (cpc[c] = "set" /\ cpc'[c] = "idle") =>
                    creq'[c] = IF ctok[c] = NilToken THEN creq[c]
                               ELSE ctok[c].TokenType \o " " \o ctok[c].AccessToken]_vars

\* C16 witness: one caller's ApplyToRequest before the first token left the
\* request's earlier header in place, the other caller's set "Bearer abc"
C16_Witness ==
    \E c, d \in Callers :
        /\ cop[c] = "ApplyToRequest" /\ cpc[c] = "idle"
        /\ ctok[c] = [gen |-> 1, AccessToken |-> "abc", TokenType |-> "Bearer",
                      ExpiresIn |-> ctok[c].ExpiresIn]
        /\ creq[c] = "Bearer abc"
        /\ cop[d] = "ApplyToRequest" /\ cpc[d] = "idle"
        /\ ctok[d] = NilToken /\ creq[d] = "Basic xyz"

\* the loop takes a step of a failed acquisition: GetNewToken returns an
\* error, or the retry sleep ends
FailureStep ==
    \/ pc = "acquire" /\ pc' = "backoff"
    \/ pc = "backoff" /\ pc' = "acquire"

\* C17: no operation ever reports an error; EnsureValidToken has returned
\* only if the channel it received from is closed (as for WaitForToken), and
\* then with a nil error, and it can return whenever that channel is closed;
\* a step of a failed acquisition changes nothing a caller sees, and a caller
\* waiting on a channel that is not closed stays waiting.
C17_ErrorsNotPropagated ==
    /\ [](\A c \in Callers :
             /\ cerr[c] # "error"
             /\ Returned(c) =>
                    /\ cgate[c] \in closed
                    /\ cerr[c] = (IF cop[c] = "EnsureValidToken" THEN "nil" ELSE "none")
             /\ (Running /\ cpc[c] = "recv" /\ cgate[c] \in closed) =>
                    ENABLED Receive(c))
    /\ [][/\ FailureStep =>
                UNCHANGED <<callerVars, currentToken, tokenReady, closed>>
          /\ \A c \in Callers :
                (cpc[c] = "recv" /\ cgate[c] \notin closed) =>
                    (cpc'[c] = "recv" /\ cgate'[c] = cgate[c])]_vars

\* C17 witness: before the first success one caller's EnsureValidToken is
\* still blocked after two failed acquisitions in a row
C17_WitnessBlocked ==
    \E d \in Callers :
        /\ cop[d] = "EnsureValidToken" /\ cpc[d] = "recv" /\ cgate[d] \notin closed
        /\ successes = 0 /\ fails >= 2

\* C17 witness: after failed acquisitions one caller's EnsureValidToken is
\* blocked on the second channel; the other's has returned nil
C17_Witness ==
    \E c, d \in Callers :
        /\ cop[c] = "EnsureValidToken" /\ cpc[c] = "idle" /\ cerr[c] = "nil"
        /\ cop[d] = "EnsureValidToken" /\ cpc[d] = "recv" /\ cgate[d] \notin closed
        /\ fails >= 2

\* successful acquisitions whose callback invocation has been reached
NotifiedGen ==
    IF pc \in {"pub_lock", "pub_write", "signal", "callback"}
    THEN successes - 1 ELSE successes

\* C19: with a callback configured, the callback has been called exactly once
\* for each successful acquisition whose callback step has been reached, in
\* order and with that acquisition's token, and never otherwise; it is called
\* only in the callback step, when that token is the stored one, its channel
\* is closed and the loop neither holds nor requests the lock, so that a read
\* from inside the callback takes the read lock and finds that token.
C19_NotificationOrdering ==
    /\ [](/\ Len(notified) = (IF onNewToken = "nil" THEN 0 ELSE NotifiedGen)
          /\ \A i \in 1..Len(notified) : notified[i] = i
          /\ pc = "callback" =>
                 /\ token.gen = successes /\ currentToken = token
                 /\ tokenReady = token.gen /\ tokenReady \in closed
                 /\ ~mutexW /\ ~WriterWaiting)
    /\ [][notified' # notified =>
             /\ pc = "callback" /\ onNewToken # "nil"
             /\ notified' = Append(notified, token.gen)
             /\ currentToken = token /\ token # NilToken
             /\ tokenReady \in closed
             /\ ~mutexW /\ ~WriterWaiting
             /\ UNCHANGED <<currentToken, closed, tokenReady>>]_vars

\* C19 witness: after the second successful acquisition the callback has
\* been called for generations 1 and 2, once each
C19_Witness ==
    /\ onNewToken = "set" /\ notified = <<1, 2>>
    /\ successes = 2 /\ pc = "schedule" /\ currentToken.gen = 2
====
